---- MODULE Spec2Model ----
(***************************************************************************)
(* A model of src/worldLevel.js: the WorldLevel constructor (default       *)
(* resolution of name, theme, physics and spawn; authored platforms        *)
(* followed by generated ones), generatePlatforms (stairs and randomHops,  *)
(* with the reseeding of the shared random source), and the geometry       *)
(* queries inferWidth / inferHeight.                                       *)
(*                                                                         *)
(* Units: gravity and jumpV are carried in hundredths (0.65 is 65), all    *)
(* other numbers are integers as in the level files.                       *)
(***************************************************************************)
EXTENDS Integers, Sequences, FiniteSets, TLC

VARIABLES
  levelJson,  \* the level description handed to the constructor
  level,      \* the WorldLevel built from it (NoLevel before construction)
  rng,        \* the shared random source: [seeded, z]
  genOut,     \* what generatePlatforms returned to the constructor
  drawn,      \* the raw values random() handed out during that call
  ret,        \* the last value returned by inferWidth / inferHeight
  source,     \* the random source as the constructor found it and as it left it
  seedLog     \* the randomHops calls that had a numeric seed: config, source found, output

vars == <<levelJson, level, rng, genOut, drawn, ret, source, seedLog>>

-----------------------------------------------------------------------------
(* JavaScript values.                                                      *)

Undefined == [t |-> "undefined"]
Null == [t |-> "null"]
Num(n) == [t |-> "number", n |-> n]
Str(s) == [t |-> "string", s |-> s]
Obj(o) == [t |-> "object", o |-> o]
Arr(a) == [t |-> "array", items |-> a]

\* An object literal with no own properties.
EmptyProps == [k \in {} |-> Undefined]

\* v.k and v?.k on a value that is not null/undefined: an own property, else undefined.
Get(v, k) == IF v.t = "object" /\ k \in DOMAIN v.o THEN v.o[k] ELSE Undefined

\* ToBoolean(v), as used by a || b and by if (v)
Truthy(v) ==
  CASE v.t \in {"null", "undefined"} -> FALSE
    [] v.t = "number" -> v.n # 0
    [] v.t = "string" -> v.s # ""
    [] OTHER -> TRUE

\* mutant of Coalesce: a || b written for a ?? b
CoalesceFalsy(a, b) == IF Truthy(a) THEN a ELSE b

\* a ?? b
Coalesce(a, b) == IF a.t \in {"null", "undefined"} THEN b ELSE a

\* a || b
OrElse(a, b) == IF Truthy(a) THEN a ELSE b

\* the own enumerable properties Object.assign copies from a source
OwnProps(v) == IF v.t = "object" THEN v.o ELSE EmptyProps

\* Object.assign(target, source) on property maps
ObjectAssign(target, src) ==
  [k \in (DOMAIN target) \cup (DOMAIN src) |->
     IF k \in DOMAIN src THEN src[k] ELSE target[k]]

Min2(a, b) == IF a < b THEN a ELSE b
Max2(a, b) == IF a > b THEN a ELSE b

-----------------------------------------------------------------------------
(* Defaults of the constructor.                                            *)

DefaultName == "Level"
DefaultBg == "#F0F0F0"
DefaultPlatform == "#C8C8C8"
DefaultBlob == "#1478FF"
DefaultGravity == 65
DefaultJumpV == -1100
DefaultStartX == 80
DefaultStartY == 180
DefaultStartR == 26

DefaultTheme ==
  [bg |-> Str(DefaultBg), platform |-> Str(DefaultPlatform), blob |-> Str(DefaultBlob)]

(* Defaults of the stairs generator.                                       *)
StairsWorldW == 640
StairsFloorY == 324
StairsFloorH == 36
StairsStartX == 120
StairsStartY == 290
StairsStepW == 80
StairsStepH == 12
StairsRise == 22
StairsCount == 8

(* Defaults of the randomHops generator.                                   *)
HopsWorldW == 900
HopsFloorY == 324
HopsFloorH == 36
HopsCount == 10
HopsPlatH == 12
HopsPlatWMin == 70
HopsPlatWMax == 120
HopsGapMin == 55
HopsGapMax == 95
HopsRiseMin == -15
HopsRiseMax == 25
HopsStartX == 140
HopsStartY == 280
MinY == 110
MaxYMargin == 60

\* gen.k ?? d, for a numeric parameter
Param(gen, k, d) == Coalesce(Get(gen, k), Num(d)).n

-----------------------------------------------------------------------------
(* The shared random source.                                               *)

\* Resolution of the source: random() returns raw / RandM for a raw in 0 .. RandM-1.
RandM == 3
LcgA == 1
LcgC == 2

Unseeded == [seeded |-> FALSE, z |-> 0]
RngStates == {Unseeded} \cup {[seeded |-> TRUE, z |-> z] : z \in 0 .. RandM - 1}

\* randomSeed(seed): the source becomes a generator started from the seed
randomSeed(seed) == [seeded |-> TRUE, z |-> seed % RandM]

\* one step of the seeded generator
LcgNext(z) == (LcgA * z + LcgC) % RandM

\* the raw values of the next n calls of random() from a seeded state z
RECURSIVE LcgSeq(_, _)
LcgSeq(z, n) == IF n <= 0 THEN <<>> ELSE <<LcgNext(z)>> \o LcgSeq(LcgNext(z), n - 1)

\* the raw value sequences n calls of random() can hand out in state r:
\* one when seeded, any when the source was never seeded
RawDraws(r, n) ==
  IF r.seeded THEN {LcgSeq(r.z, n)} ELSE [1 .. n -> 0 .. RandM - 1]

\* the state of the source after handing out the sequence raw
AfterDraws(r, raw) ==
  IF r.seeded /\ Len(raw) > 0 THEN [seeded |-> TRUE, z |-> raw[Len(raw)]] ELSE r

\* floor(random(min, max)) for the raw value the source hands out
FloorRandom(raw, min, max) ==
  LET lo == Min2(min, max)
      hi == Max2(min, max)
  IN  lo + ((raw * (hi - lo)) \div RandM)

\* constrain(n, low, high)
constrain(n, low, high) == Max2(Min2(n, high), low)

-----------------------------------------------------------------------------
(* generatePlatforms.                                                      *)

\* mutant of Reseed: the seed is never applied
ReseedNever(gen, r) == r

\* if (typeof gen.seed === "number") randomSeed(gen.seed)
Reseed(gen, r) ==
  IF Get(gen, "seed").t = "number" THEN randomSeed(Get(gen, "seed").n) ELSE r

\* the floor rectangle both generators push first
FloorRect(floorY, worldW, floorH) == [x |-> 0, y |-> floorY, w |-> worldW, h |-> floorH]

\* mutant of StairStep: the loop index taken from 1
StairStepFromOne(i, startX, startY, stepW, stepH, rise) ==
  [x |-> startX + (i + 1) * stepW, y |-> startY - (i + 1) * rise, w |-> stepW, h |-> stepH]

\* the rectangle the stairs loop pushes at index i
StairStep(i, startX, startY, stepW, stepH, rise) ==
  [x |-> startX + i * stepW, y |-> startY - i * rise, w |-> stepW, h |-> stepH]

\* for (let i = 0; i < count; i++) out.push(step i)
RECURSIVE StairsLoop(_, _, _, _)
StairsLoop(i, count, out, gen) ==
  IF i < count
  THEN StairsLoop(i + 1, count,
                  Append(out, StairStep(i,
                                        Param(gen, "startX", StairsStartX),
                                        Param(gen, "startY", StairsStartY),
                                        Param(gen, "stepW", StairsStepW),
                                        Param(gen, "stepH", StairsStepH),
                                        Param(gen, "rise", StairsRise))),
                  gen)
  ELSE out

\* the branch gen.type === "stairs"
Stairs(gen) ==
  StairsLoop(0, Param(gen, "count", StairsCount),
             <<FloorRect(Param(gen, "floorY", StairsFloorY),
                         Param(gen, "worldW", StairsWorldW),
                         Param(gen, "floorH", StairsFloorH))>>,
             gen)

\* mutant of HopAdvance: the platform's own width left out
HopAdvanceGapOnly(x, w, gap) == x + gap

\* x = x + w + gap
HopAdvance(x, w, gap) == x + w + gap

\* y = constrain(y - dy, minY, maxY)
HopRise(y, dy, floorY) == constrain(y - dy, MinY, floorY - MaxYMargin)

\* the randomHops loop; iteration i consumes raw[3i+1], raw[3i+2], raw[3i+3]
RECURSIVE HopsLoop(_, _, _, _, _, _, _)
HopsLoop(i, count, x, y, out, gen, raw) ==
  IF i < count
  THEN LET w == FloorRandom(raw[3 * i + 1],
                            Param(gen, "platWMin", HopsPlatWMin),
                            Param(gen, "platWMax", HopsPlatWMax) + 1)
           gap == FloorRandom(raw[3 * i + 2],
                              Param(gen, "gapMin", HopsGapMin),
                              Param(gen, "gapMax", HopsGapMax) + 1)
           dy == FloorRandom(raw[3 * i + 3],
                             Param(gen, "riseMin", HopsRiseMin),
                             Param(gen, "riseMax", HopsRiseMax) + 1)
       IN  HopsLoop(i + 1, count,
                    HopAdvance(x, w, gap),
                    HopRise(y, dy, Param(gen, "floorY", HopsFloorY)),
                    Append(out, [x |-> x, y |-> y, w |-> w,
                                 h |-> Param(gen, "platH", HopsPlatH)]),
                    gen, raw)
  ELSE out

\* the branch gen.type === "randomHops"
RandomHops(gen, raw) ==
  HopsLoop(0, Param(gen, "count", HopsCount),
           Param(gen, "startX", HopsStartX),
           Param(gen, "startY", HopsStartY),
           <<FloorRect(Param(gen, "floorY", HopsFloorY),
                       Param(gen, "worldW", HopsWorldW),
                       Param(gen, "floorH", HopsFloorH))>>,
           gen, raw)

\* how many times generatePlatforms(gen) calls random()
NumDraws(gen) ==
  IF Get(gen, "type") = Str("randomHops")
  THEN 3 * Max2(Param(gen, "count", HopsCount), 0)
  ELSE 0

\* mutant of generatePlatforms: the floor is pushed before the type is looked at
generatePlatformsFloorFirst(gen, r, raw) ==
  LET seeded == Reseed(gen, r)
      floorFirst == <<FloorRect(Param(gen, "floorY", StairsFloorY),
                                Param(gen, "worldW", StairsWorldW),
                                Param(gen, "floorH", StairsFloorH))>>
  IN  IF Get(gen, "type") = Str("stairs")
      THEN [out |-> Stairs(gen), rng |-> seeded]
      ELSE IF Get(gen, "type") = Str("randomHops")
      THEN [out |-> RandomHops(gen, raw), rng |-> AfterDraws(seeded, raw)]
      ELSE [out |-> floorFirst, rng |-> seeded]

\* generatePlatforms(gen) in source state r, random() handing out raw:
\* the returned array and the state the source is left in
generatePlatforms(gen, r, raw) ==
  LET seeded == Reseed(gen, r)
  IN  IF Get(gen, "type") = Str("stairs")
      THEN [out |-> Stairs(gen), rng |-> seeded]
      ELSE IF Get(gen, "type") = Str("randomHops")
      THEN [out |-> RandomHops(gen, raw), rng |-> AfterDraws(seeded, raw)]
      ELSE [out |-> <<>>, rng |-> seeded]

-----------------------------------------------------------------------------
(* The constructor.                                                        *)

\* new Platform(p): the platform entity keeps the rectangle it is built from
Platform(p) == [x |-> p.x, y |-> p.y, w |-> p.w, h |-> p.h]

\* rawPlatforms.map((p) => new Platform(p))
MapPlatform(ps) == [i \in 1 .. Len(ps) |-> Platform(ps[i])]

\* Array.isArray(levelJson.platforms) ? levelJson.platforms : []
AuthoredPlatforms(d) ==
  IF Get(d, "platforms").t = "array" THEN Get(d, "platforms").items ELSE <<>>

\* mutant of Concat: the generated platforms put in front
ConcatGeneratedFirst(rawPlatforms, generated) == generated \o rawPlatforms

\* rawPlatforms.concat(generated)
Concat(rawPlatforms, generated) == rawPlatforms \o generated

\* Object.assign({defaults}, levelJson.theme || {})
ResolveTheme(d) ==
  ObjectAssign(DefaultTheme, OwnProps(OrElse(Get(d, "theme"), Obj(EmptyProps))))

\* the fields the constructor resolves before it looks at the platforms
ResolveFields(d) ==
  [name |-> OrElse(Get(d, "name"), Str(DefaultName)),
   theme |-> ResolveTheme(d),
   gravity |-> Coalesce(Get(d, "gravity"), Num(DefaultGravity)),
   jumpV |-> Coalesce(Get(d, "jumpV"), Num(DefaultJumpV)),
   start |-> [x |-> Coalesce(Get(Get(d, "start"), "x"), Num(DefaultStartX)),
              y |-> Coalesce(Get(Get(d, "start"), "y"), Num(DefaultStartY)),
              r |-> Coalesce(Get(Get(d, "start"), "r"), Num(DefaultStartR))]]

\* the raw value sequences random() can hand out while d is constructed in state r
ConstructDraws(d, r) ==
  IF Truthy(Get(d, "generated"))
  THEN RawDraws(Reseed(Get(d, "generated"), r), NumDraws(Get(d, "generated")))
  ELSE {<<>>}

\* new WorldLevel(d) in source state r, random() handing out raw
WorldLevel(d, r, raw) ==
  LET g == IF Truthy(Get(d, "generated"))
           THEN generatePlatforms(Get(d, "generated"), r, raw)
           ELSE [out |-> <<>>, rng |-> r]
      f == ResolveFields(d)
  IN  [level |-> [name |-> f.name, theme |-> f.theme, gravity |-> f.gravity,
                  jumpV |-> f.jumpV, start |-> f.start,
                  platforms |-> MapPlatform(Concat(AuthoredPlatforms(d), g.out))],
       out |-> g.out,
       rng |-> g.rng]

\* max(array)
RECURSIVE MaxOf(_)
MaxOf(s) == IF Len(s) = 1 THEN s[1] ELSE Max2(s[1], MaxOf(Tail(s)))

DefaultInferW == 640
DefaultInferH == 360

\* mutant of inferWidth: the largest left edge, the widths left out
inferWidthLeftEdge(lv, arg) ==
  IF Len(lv.platforms) = 0
  THEN (IF arg.t = "undefined" THEN Num(DefaultInferW) ELSE arg)
  ELSE Num(MaxOf([i \in 1 .. Len(lv.platforms) |-> lv.platforms[i].x]))

\* inferWidth(defaultW = 640)
inferWidth(lv, arg) ==
  IF Len(lv.platforms) = 0
  THEN (IF arg.t = "undefined" THEN Num(DefaultInferW) ELSE arg)
  ELSE Num(MaxOf([i \in 1 .. Len(lv.platforms) |-> lv.platforms[i].x + lv.platforms[i].w]))

\* inferHeight(defaultH = 360)
inferHeight(lv, arg) ==
  IF Len(lv.platforms) = 0
  THEN (IF arg.t = "undefined" THEN Num(DefaultInferH) ELSE arg)
  ELSE Num(MaxOf([i \in 1 .. Len(lv.platforms) |-> lv.platforms[i].y + lv.platforms[i].h]))

-----------------------------------------------------------------------------
(* Operations.                                                             *)

\* Bounds of the model.
MaxCount == 2
MaxAuthored == 2
MaxArg == 1
MaxRuns == 2

NoLevel == [t |-> "none"]
NoRet == [op |-> "none", arg |-> Undefined, val |-> Undefined]

IsSeededHops(gen) ==
  Get(gen, "type") = Str("randomHops") /\ Get(gen, "seed").t = "number"

\* new WorldLevel(d)
ConstructWith(d) ==
  \E raw \in ConstructDraws(d, rng) :
    LET c == WorldLevel(d, rng, raw)
    IN  /\ levelJson' = d
        /\ level' = c.level
        /\ rng' = c.rng
        /\ genOut' = c.out
        /\ drawn' = raw
        /\ ret' = NoRet
        /\ source' = [before |-> rng, after |-> c.rng]
        /\ IF Truthy(Get(d, "generated")) /\ IsSeededHops(Get(d, "generated"))
           THEN /\ Len(seedLog) < MaxRuns
                /\ seedLog' = Append(seedLog, [gen |-> Get(d, "generated"),
                                               before |-> rng, out |-> c.out])
           ELSE seedLog' = seedLog

\* the level description chosen at start is constructed
Construct ==
  /\ level = NoLevel
  /\ ConstructWith(levelJson)

\* the sketch replaces the level by one built from another description
Rebuild(d) ==
  /\ level # NoLevel
  /\ ConstructWith(d)

\* other code of the sketch calls random()
OtherDraw ==
  /\ \E raw \in RawDraws(rng, 1) : rng' = AfterDraws(rng, raw)
  /\ UNCHANGED <<levelJson, level, genOut, drawn, ret, source, seedLog>>

\* level.inferWidth(arg)
InferWidth(arg) ==
  /\ level # NoLevel
  /\ ret' = [op |-> "inferWidth", arg |-> arg, val |-> inferWidth(level, arg)]
  /\ UNCHANGED <<levelJson, level, rng, genOut, drawn, source, seedLog>>

\* level.inferHeight(arg)
InferHeight(arg) ==
  /\ level # NoLevel
  /\ ret' = [op |-> "inferHeight", arg |-> arg, val |-> inferHeight(level, arg)]
  /\ UNCHANGED <<levelJson, level, rng, genOut, drawn, source, seedLog>>

-----------------------------------------------------------------------------
(* Level descriptions the sketch can load.                                 *)

\* marks a key the description leaves out
Absent == [t |-> "absent"]

\* the object whose own properties are the keys of f not marked Absent
Literal(f) == Obj([k \in {j \in DOMAIN f : f[j] # Absent} |-> f[k]])

NameVals == {Absent, Str(""), Str("Intro Steps")}
GravityVals == {Absent, Null, Num(0), Num(80)}
JumpVVals == {Absent, Num(0), Num(-900)}
ColorVals == {Absent, Null, Str("#101010")}
CoordVals == {Absent, Null, Num(0)}
ThemeVals ==
  {Absent, Null} \cup
  {Literal(t) : t \in [bg : ColorVals, platform : ColorVals, blob : ColorVals]}
StartVals ==
  {Absent, Null} \cup
  {Literal(t) : t \in [x : {Absent, Num(0)}, y : CoordVals \cup {Num(50)}, r : CoordVals]}

\* descriptions that vary the resolved fields and have no platforms
ResolveInputs ==
  {Literal(f) : f \in [name : NameVals, gravity : GravityVals, jumpV : JumpVVals,
                       theme : ThemeVals, start : StartVals]}

AuthoredRects ==
  {[x |-> 0, y |-> 0, w |-> 10, h |-> 5],
   [x |-> 20, y |-> 30, w |-> 5, h |-> 2],
   [x |-> 950, y |-> 400, w |-> 50, h |-> 10]}

AuthoredSeqs == UNION {[1 .. n -> AuthoredRects] : n \in 0 .. MaxAuthored}

PlatformsVals ==
  {Absent, Null, Obj(EmptyProps)} \cup {Arr(a) : a \in AuthoredSeqs}

SeedVals == {Absent, Num(1), Str("1")}

\* stairs configs: every parameter either left out or given
StairsConfigs ==
  {Literal(g) : g \in [type : {Str("stairs")},
                       count : {Absent} \cup {Num(n) : n \in 0 .. MaxCount},
                       startX : {Absent, Num(0)},
                       startY : {Absent, Num(100)},
                       stepW : {Absent, Num(10)},
                       stepH : {Absent, Num(5)},
                       rise : {Absent, Num(2)},
                       floorY : {Absent, Num(200)},
                       worldW : {Absent, Num(300)},
                       floorH : {Absent, Num(0)},
                       seed : {Absent, Num(1)}]}

\* configs whose type is neither "stairs" nor "randomHops"
UnknownConfigs ==
  {Literal(g) : g \in [type : {Absent, Null, Str("teleport"), Str("Stairs"), Num(1)},
                       count : {Absent, Num(MaxCount)},
                       floorY : {Absent, Num(200)},
                       seed : SeedVals]}

StairsInputs ==
  {Literal(f) : f \in [platforms : {Absent, Arr(<<[x |-> 0, y |-> 0, w |-> 10, h |-> 5]>>)},
                       generated : StairsConfigs \cup UnknownConfigs]}

\* ranges of the randomHops draws: the defaults, narrow ranges with a wide rise,
\* overlapping platforms (negative gaps), zero advance, and a gap range given
\* with its ends swapped
HopsRanges ==
  {[platWMin |-> Absent, platWMax |-> Absent, gapMin |-> Absent, gapMax |-> Absent,
    riseMin |-> Absent, riseMax |-> Absent],
   [platWMin |-> Num(10), platWMax |-> Num(12), gapMin |-> Num(0), gapMax |-> Num(2),
    riseMin |-> Num(-150), riseMax |-> Num(150)],
   [platWMin |-> Num(0), platWMax |-> Num(0), gapMin |-> Num(-3), gapMax |-> Num(-1),
    riseMin |-> Num(0), riseMax |-> Num(0)],
   [platWMin |-> Num(0), platWMax |-> Num(0), gapMin |-> Num(0), gapMax |-> Num(0),
    riseMin |-> Absent, riseMax |-> Absent],
   [platWMin |-> Num(4), platWMax |-> Num(4), gapMin |-> Num(5), gapMax |-> Num(2),
    riseMin |-> Num(-1), riseMax |-> Num(1)]}

\* randomHops configs with the count given
HopsConfigs ==
  {Literal(ObjectAssign(g, rg)) :
     g \in [type : {Str("randomHops")},
            count : {Num(n) : n \in 0 .. MaxCount},
            startY : {Absent, Num(150)},
            floorY : {Absent, Num(160)},
            seed : {Absent, Num(1)}],
     rg \in HopsRanges}

\* randomHops configs that leave the count to its default and give a seed
DefaultHopsConfigs ==
  {Literal(g) : g \in [type : {Str("randomHops")}, seed : {Num(1), Num(2)},
                       startY : {Absent, Num(150)}]}

HopsInputs == {Literal([generated |-> g]) : g \in HopsConfigs \cup DefaultHopsConfigs}

\* every kind of generated value next to every kind of platforms value
OrderGenerated ==
  {Absent, Null, Num(0), Obj(EmptyProps),
   Literal([type |-> Str("teleport"), count |-> Num(MaxCount)]),
   Literal([type |-> Str("randomHops"), count |-> Num(1)]),
   Literal([type |-> Str("randomHops"), seed |-> Num(2)])} \cup
  {Literal([type |-> Str("stairs"), count |-> Num(n)]) : n \in 0 .. MaxCount} \cup
  {Literal([type |-> Str("randomHops"), count |-> Num(n), seed |-> Num(1), worldW |-> Num(40)]) :
     n \in 0 .. MaxCount}

OrderInputs ==
  {Literal(f) : f \in [platforms : PlatformsVals, generated : OrderGenerated]}

\* descriptions built one after another on the same random source
SeedGenerated ==
  {Absent,
   Literal([type |-> Str("randomHops"), count |-> Num(MaxCount), seed |-> Num(1)]),
   Literal([type |-> Str("randomHops"), count |-> Num(MaxCount), seed |-> Num(2)]),
   Literal([type |-> Str("randomHops"), count |-> Num(1)]),
   Literal([type |-> Str("randomHops"), count |-> Num(1), seed |-> Str("1")]),
   Literal([type |-> Str("stairs"), count |-> Num(1), seed |-> Num(2)]),
   Literal([type |-> Str("stairs"), count |-> Num(1)])}

SeedInputs == {Literal([generated |-> g]) : g \in SeedGenerated}

InferArgs == {Undefined} \cup {Num(n) : n \in 0 .. MaxArg}

-----------------------------------------------------------------------------
(* Specifications.                                                         *)

InitWith(inputs, sources) ==
  /\ levelJson \in inputs
  /\ level = NoLevel
  /\ rng \in sources
  /\ genOut = <<>>
  /\ drawn = <<>>
  /\ ret = NoRet
  /\ source = [before |-> rng, after |-> rng]
  /\ seedLog = <<>>

\* one level object: constructed once, then queried
NextOnce ==
  \/ Construct
  \/ \E arg \in InferArgs : InferWidth(arg)
  \/ \E arg \in InferArgs : InferHeight(arg)

\* one level object constructed while other code draws from the source
NextBuild ==
  \/ Construct
  \/ OtherDraw

\* the level is rebuilt from one description after another
NextMany ==
  \/ Construct
  \/ \E d \in SeedInputs : Rebuild(d)
  \/ OtherDraw

\* default resolution of name, theme, physics and spawn
InitResolve == InitWith(ResolveInputs, {Unseeded})
SpecResolve == InitResolve /\ [][NextOnce]_vars

\* the stairs generator and configs of unknown type
InitStairs == InitWith(StairsInputs, RngStates)
SpecStairs == InitStairs /\ [][NextOnce]_vars

\* the randomHops generator, from every state of the random source
InitHops == InitWith(HopsInputs, RngStates)
SpecHops == InitHops /\ [][NextBuild]_vars

\* authored platforms followed by generated ones, and the geometry queries
InitOrder == InitWith(OrderInputs, RngStates)
SpecOrder == InitOrder /\ [][NextOnce]_vars

\* repeated builds sharing one random source
InitSeed == InitWith(SeedInputs, RngStates)
SpecSeed == InitSeed /\ [][NextMany]_vars

Spec == SpecOrder

-----------------------------------------------------------------------------
(* Properties.                                                             *)

Built == level # NoLevel
Generated == Get(levelJson, "generated")
GivenOr(v, d) == IF v.t = "null" \/ v.t = "undefined" THEN d ELSE v
BuiltFrom(type) == Built /\ Truthy(Generated) /\ Get(Generated, "type") = Str(type)

\* the hop platforms of the last randomHops output: everything after the floor
HopAt(i) == genOut[i + 1]
NumHops == Len(genOut) - 1
\* the gap drawn after hop platform i was pushed
GapAt(i) ==
  FloorRandom(drawn[3 * (i - 1) + 2],
              GivenOr(Get(Generated, "gapMin"), Num(55)).n,
              GivenOr(Get(Generated, "gapMax"), Num(95)).n + 1)

\* C1: every platform a randomHops config generates, other than the floor, has
\* 110 <= y <= floorY - 60, the first hop platform (emitted at startY) included.
C1_HopsInBand ==
  BuiltFrom("randomHops") =>
    \A i \in 1 .. NumHops :
      /\ 110 <= HopAt(i).y
      /\ HopAt(i).y <= GivenOr(Get(Generated, "floorY"), Num(324)).n - 60

\* C2: the built platforms are the authored platforms in their order followed by
\* the generator's output in emission order; the length is the sum of both.
C2_AuthoredThenGenerated ==
  Built =>
    LET authored == IF Get(levelJson, "platforms").t = "array"
                    THEN Get(levelJson, "platforms").items ELSE <<>>
    IN  /\ Len(level.platforms) = Len(authored) + Len(genOut)
        /\ \A i \in 1 .. Len(authored) : level.platforms[i] = authored[i]
        /\ \A j \in 1 .. Len(genOut) : level.platforms[Len(authored) + j] = genOut[j]

C2_Witness ==
  /\ Built
  /\ Get(levelJson, "platforms").t = "array"
  /\ Len(Get(levelJson, "platforms").items) = 2
  /\ Get(levelJson, "platforms").items[1] # Get(levelJson, "platforms").items[2]
  /\ Len(genOut) = 3
  /\ Len(level.platforms) = 5

\* C3: two randomHops calls with the same config and the same numeric seed return
\* the same sequence, whatever the random source held before each call.
C3_SeedDeterminism ==
  \A i, j \in 1 .. Len(seedLog) :
    seedLog[i].gen = seedLog[j].gen => seedLog[i].out = seedLog[j].out

C3_Witness ==
  \E i, j \in 1 .. Len(seedLog) :
    /\ i < j
    /\ seedLog[i].gen = seedLog[j].gen
    /\ seedLog[i].before # seedLog[j].before
    /\ Len(seedLog[i].out) > 2
    /\ seedLog[i].out = seedLog[j].out

\* C4: a stairs config yields the floor followed by count steps, step i at
\* (startX + i*stepW, startY - i*rise) of size stepW x stepH, absent parameters
\* taking their defaults; count = 0 yields the floor alone.
C4_StairsOutput ==
  BuiltFrom("stairs") =>
    LET P(k, d) == GivenOr(Get(Generated, k), Num(d)).n
        count == P("count", 8)
    IN  /\ Len(genOut) = count + 1
        /\ genOut[1] = [x |-> 0, y |-> P("floorY", 324), w |-> P("worldW", 640),
                        h |-> P("floorH", 36)]
        /\ \A i \in 0 .. count - 1 :
             genOut[i + 2] = [x |-> P("startX", 120) + i * P("stepW", 80),
                              y |-> P("startY", 290) - i * P("rise", 22),
                              w |-> P("stepW", 80),
                              h |-> P("stepH", 12)]

C4_Witness ==
  /\ BuiltFrom("stairs")
  /\ Get(Generated, "count") = Num(2)
  /\ Get(Generated, "rise") = Undefined
  /\ Get(Generated, "stepW") = Num(10)
  /\ Len(genOut) = 3
  /\ genOut[3].x = 130
  /\ genOut[3].y = 268

\* C5: the built Level has no null or undefined value in name, theme.bg,
\* theme.platform, theme.blob, gravity, jumpV, start.x, start.y, start.r, and a
\* theme key the description does not set keeps its default.
C5_NoNullLeaks ==
  Built =>
    LET Filled(v) == v.t # "null" /\ v.t # "undefined"
        Dflt == [bg |-> Str("#F0F0F0"), platform |-> Str("#C8C8C8"), blob |-> Str("#1478FF")]
    IN  /\ Filled(level.name)
        /\ Filled(level.gravity)
        /\ Filled(level.jumpV)
        /\ Filled(level.start.x) /\ Filled(level.start.y) /\ Filled(level.start.r)
        /\ \A k \in {"bg", "platform", "blob"} :
             /\ Filled(level.theme[k])
             /\ Get(Get(levelJson, "theme"), k) = Undefined => level.theme[k] = Dflt[k]

\* C6: gravity, jumpV, start.x, start.y, start.r are each defaulted on their own
\* and only when null or undefined; a given value, 0 included, is kept.
C6_NullishDefaults ==
  Built =>
    /\ level.gravity = GivenOr(Get(levelJson, "gravity"), Num(65))
    /\ level.jumpV = GivenOr(Get(levelJson, "jumpV"), Num(-1100))
    /\ level.start.x = GivenOr(Get(Get(levelJson, "start"), "x"), Num(80))
    /\ level.start.y = GivenOr(Get(Get(levelJson, "start"), "y"), Num(180))
    /\ level.start.r = GivenOr(Get(Get(levelJson, "start"), "r"), Num(26))

C6_Witness ==
  /\ Built
  /\ Get(levelJson, "gravity") = Num(0)
  /\ level.gravity = Num(0)
  /\ Get(levelJson, "jumpV") = Undefined
  /\ level.jumpV = Num(-1100)
  /\ Get(levelJson, "start") = Obj([y |-> Num(50)])
  /\ level.start = [x |-> Num(80), y |-> Num(50), r |-> Num(26)]

\* what inferWidth / inferHeight returned is the given default on an empty level
\* and the largest right / bottom edge otherwise
C7_Returns ==
  /\ ret.op = "inferWidth" =>
       IF Len(level.platforms) = 0
       THEN ret.val = (IF ret.arg = Undefined THEN Num(640) ELSE ret.arg)
       ELSE /\ \E i \in 1 .. Len(level.platforms) :
                 ret.val = Num(level.platforms[i].x + level.platforms[i].w)
            /\ \A i \in 1 .. Len(level.platforms) :
                 level.platforms[i].x + level.platforms[i].w <= ret.val.n
  /\ ret.op = "inferHeight" =>
       IF Len(level.platforms) = 0
       THEN ret.val = (IF ret.arg = Undefined THEN Num(360) ELSE ret.arg)
       ELSE /\ \E i \in 1 .. Len(level.platforms) :
                 ret.val = Num(level.platforms[i].y + level.platforms[i].h)
            /\ \A i \in 1 .. Len(level.platforms) :
                 level.platforms[i].y + level.platforms[i].h <= ret.val.n

\* a query leaves the level and the random source alone, and asked again with the
\* same argument it returns the same value
C7_Frame ==
  ret'.op # "none" =>
    /\ level' = level
    /\ levelJson' = levelJson
    /\ rng' = rng
    /\ (ret.op = ret'.op /\ ret.arg = ret'.arg) => ret'.val = ret.val

\* C7: inferWidth / inferHeight return the default on an empty platform sequence,
\* else the maximum of x+w / y+h over all platforms; they change nothing and
\* repeat their answer.
C7_InferQueries == []C7_Returns /\ [][C7_Frame]_vars

C7_Witness ==
  /\ ret.op = "inferWidth"
  /\ Get(levelJson, "platforms").t = "array"
  /\ Len(Get(levelJson, "platforms").items) = 2
  /\ Len(genOut) = 3
  /\ ret.val = Num(1000)

\* C8: a generated config whose type is neither "stairs" nor "randomHops"
\* contributes no platform: the built platforms are the authored ones alone.
C8_UnknownTypeEmpty ==
  (/\ Built
   /\ Generated.t = "object"
   /\ Get(Generated, "type") # Str("stairs")
   /\ Get(Generated, "type") # Str("randomHops")) =>
    LET authored == IF Get(levelJson, "platforms").t = "array"
                    THEN Get(levelJson, "platforms").items ELSE <<>>
    IN  /\ genOut = <<>>
        /\ Len(level.platforms) = Len(authored)
        /\ \A i \in 1 .. Len(authored) : level.platforms[i] = authored[i]

C8_Witness ==
  /\ Built
  /\ Get(Generated, "type") = Str("teleport")
  /\ Get(Generated, "count") = Num(2)
  /\ Len(level.platforms) = 1
  /\ Get(levelJson, "platforms").t = "array"

\* C9 as stated: the x of successive hop platforms never decreases, is strictly
\* greater when the drawn w + gap is positive, and is the previous x plus the
\* previous w plus the drawn gap.
C9_HopsNeverGoBack ==
  BuiltFrom("randomHops") =>
    \A i \in 1 .. NumHops - 1 :
      /\ HopAt(i + 1).x >= HopAt(i).x
      /\ HopAt(i).w + GapAt(i) > 0 => HopAt(i + 1).x > HopAt(i).x
      /\ HopAt(i + 1).x = HopAt(i).x + HopAt(i).w + GapAt(i)

\* C9, amended: each hop platform's x is the previous x plus the previous w plus
\* the drawn gap; so it is not smaller exactly when w + gap >= 0 and strictly
\* greater exactly when w + gap > 0.
C9_HopsAdvance ==
  BuiltFrom("randomHops") =>
    \A i \in 1 .. NumHops - 1 :
      /\ HopAt(i + 1).x = HopAt(i).x + HopAt(i).w + GapAt(i)
      /\ HopAt(i + 1).x >= HopAt(i).x <=> HopAt(i).w + GapAt(i) >= 0
      /\ HopAt(i + 1).x > HopAt(i).x <=> HopAt(i).w + GapAt(i) > 0

C9_Witness ==
  /\ BuiltFrom("randomHops")
  /\ NumHops = 2
  /\ Get(Generated, "gapMin") = Num(0)
  /\ HopAt(1).w + GapAt(1) > 0
  /\ HopAt(2).x > HopAt(1).x
  /\ drawn[2] = 2

\* C10: a build that processes no randomHops config with a numeric seed leaves
\* the random source as it found it.
C10_OnlySeededHopsTouchSource ==
  (Built /\ ~(Truthy(Generated) /\ Get(Generated, "type") = Str("randomHops")
                                /\ Get(Generated, "seed").t = "number")) =>
    source.after = source.before

====
